---- MODULE Spec2Model ----
(***************************************************************************)
(* piChain: the Blocktree, the Node handlers and the Paxos message         *)
(* handlers of piChain/PaxosProtocol.py, with the transaction identity of  *)
(* piChain/messages.py.                                                     *)
(*                                                                         *)
(* Every handler is an operator from (node state, input) to the node       *)
(* state it leaves behind, the objects it hands to broadcast/respond and   *)
(* the exception it ends with ("none" when it returns normally).  An       *)
(* exception keeps the assignments made before the raising statement.      *)
(***************************************************************************)
EXTENDS Integers, Sequences, FiniteSets, TLC

(* ---------------- bounds of the model ---------------- *)
NumNodes == 3
MaxSeq == 3
MaxReq == 3
\* blocks created in one cluster: two nodes reach QUICK with two blocks each
MaxNetSeq == 4

(* ---------------- program constants ---------------- *)
QUICK == 0
MEDIUM == 1
SLOW == 2
\* EXPECTED_RTT = 1. and EPSILON = 0.001, both in thousandths
EXPECTED_RTT == 1000
EPSILON == 1

Nodes == 0 .. (NumNodes - 1)

\* Python's None where an object (Block, Transaction) is expected
None == [none |-> TRUE]
\* Python's None in the integer fields Block.depth and Block.creator_state
NoDepth == -1
NoState == -1
\* Python's None in Node.slow_timeout
NoTimeout == -1

(* ---------------- Transaction ---------------- *)
\* txn_id = creator_id | (SEQ << 16), for a creator_id below 2^16
txn_id(t) == (t.SEQ * 65536) + (t.creator_id % 65536)

Transaction(creator_id, content, counter) ==
    [creator_id |-> creator_id, SEQ |-> counter, content |-> content]

\* Transaction.__eq__: a == b
TxnEq(a, b) == txn_id(a) = txn_id(b)

\* `txn in collection` for a set or a list of transactions
TxnInSet(t, S) == \E u \in S : TxnEq(u, t)
TxnInList(t, q) == \E i \in 1 .. Len(q) : TxnEq(q[i], t)

(* ---------------- Block ---------------- *)
Digits(k) == IF k < 10 THEN 1 ELSE IF k < 100 THEN 2 ELSE 3
Pow10(d) == IF d = 1 THEN 10 ELSE IF d = 2 THEN 100 ELSE 1000

\* block_id = int(str(creator_id) + str(SEQ))
BlockId(creator_id, seq) ==
    IF creator_id < 0
    THEN 0 - (((0 - creator_id) * Pow10(Digits(seq))) + seq)
    ELSE (creator_id * Pow10(Digits(seq))) + seq

Block(creator_id, parent_block_id, txs, seq) ==
    [creator_id |-> creator_id, SEQ |-> seq, block_id |-> BlockId(creator_id, seq),
     creator_state |-> NoState, parent_block_id |-> parent_block_id,
     txs |-> txs, depth |-> NoDepth]

GENESIS == Block(-1, None, <<>>, 0)

Raise(e) == [val |-> FALSE, exc |-> e]
Return(v) == [val |-> v, exc |-> "none"]

\* Block.__lt__(self, other); other may be None. The attribute other.depth is
\* read before the comparison, and None < int is a TypeError.
Block__lt__(self, other) ==
    IF other = None THEN Raise("AttributeError")
    ELSE IF self.depth = NoDepth \/ other.depth = NoDepth THEN Raise("TypeError")
    ELSE IF self.depth < other.depth THEN Return(TRUE)
    ELSE IF self.depth > other.depth THEN Return(FALSE)
    ELSE Return(self.creator_id < other.creator_id)

\* the expression `a < b`: None has no ordering, and Block defines no __gt__
\* for the reflected call
Less(a, b) == IF a = None THEN Raise("TypeError") ELSE Block__lt__(a, b)

(* ---------------- Message ---------------- *)
Message(msg_type, request_seq) ==
    [msg_type |-> msg_type, request_seq |-> request_seq, new_block |-> None,
     prop_block |-> None, supp_block |-> None, com_block |-> None,
     last_committed_block |-> None]

IsMessage(o) == "msg_type" \in DOMAIN o
IsBlock(o) == "block_id" \in DOMAIN o

\* what a handler hands to the transport
broadcast(obj) == [via |-> "broadcast", obj |-> obj]
respond(obj) == [via |-> "respond", obj |-> obj]

(* ---------------- Node.__init__ and Blocktree.__init__ ---------------- *)
InitNode(i) ==
    [id |-> i, state |-> SLOW, n |-> NumNodes,
     known_txs |-> {}, new_txs |-> <<>>,
     head_block |-> GENESIS, committed_block |-> GENESIS,
     nodes |-> {GENESIS.block_id}, blocks |-> {},
     slow_timeout |-> NoTimeout, oldest_txn |-> None,
     s_max_block |-> GENESIS, s_prop_block |-> None, s_supp_block |-> None,
     c_new_block |-> None, c_com_block |-> None, c_request_seq |-> 0,
     c_votes |-> 0, c_prop_block |-> None, c_supp_block |-> None,
     commit_running |-> FALSE]

(* ---------------- Blocktree ---------------- *)
\* move_to_block has no body: it changes nothing
move_to_block(s, target) == s

\* nodes.get(key): the keys are block ids, and a parent_block_id made by
\* create_block is a Block object, which is no key of the dictionary
NodesGet(s, key) == None

\* the loop of Blocktree.ancestor from block b on
\* `block_a.block_id == b.parent_block_id` compares an int with a Block
\* object, which is never equal; block_a.block_id is read first
RECURSIVE AncestorWalk(_, _, _)
AncestorWalk(s, block_a, b) ==
    IF b = None THEN Raise("AttributeError")
    ELSE IF b.parent_block_id = None THEN Return(FALSE)
    ELSE IF block_a = None THEN Raise("AttributeError")
    ELSE AncestorWalk(s, block_a, NodesGet(s, b.parent_block_id))

ancestor(s, block_a, block_b) ==
    IF block_b = None THEN Raise("AttributeError")
    ELSE IF block_b.block_id \notin s.nodes THEN Raise("ValueError")
    ELSE AncestorWalk(s, block_a, block_b)

\* Blocktree.commit: [st, exc]
commit(s, block) ==
    LET a == ancestor(s, block, s.committed_block) IN
    IF a.exc # "none" THEN [st |-> s, exc |-> a.exc]
    ELSE IF ~a.val
         THEN [st |-> move_to_block([s EXCEPT !.committed_block = block], block),
               exc |-> "none"]
         ELSE [st |-> s, exc |-> "none"]

\* Blocktree.depth returns 0 for every block
depth(s, block) == 0

\* Blocktree.valid_block: [val, exc, block], block being the argument with
\* its depth field assigned
valid_block(s, block) ==
    LET b == [block EXCEPT !.depth = depth(s, block)]
        l == Less(b, s.head_block) IN
    IF l.exc # "none" THEN [val |-> FALSE, exc |-> l.exc, block |-> b]
    ELSE [val |-> ~l.val, exc |-> "none", block |-> b]

(* ---------------- Node: helpers ---------------- *)
\* the value random.uniform gives a SLOW node: the middle of its interval
\* [(2 + EPSILON) * RTT, (2 + EPSILON) * RTT + n * RTT * 0.5]
SlowDraws(n) ==
    LET lo == ((2000 + EPSILON) * EXPECTED_RTT) \div 1000 IN
    {lo + ((n * EXPECTED_RTT * 5) \div 20)}

\* Node.get_patience: [st, patience]; draw is the value random.uniform gives
get_patience(s, draw) ==
    IF s.state = QUICK THEN [st |-> s, patience |-> 0]
    ELSE IF s.state = MEDIUM
         THEN [st |-> s, patience |-> ((1000 + EPSILON) * EXPECTED_RTT) \div 1000]
    ELSE IF s.slow_timeout = NoTimeout
         THEN [st |-> [s EXCEPT !.slow_timeout = draw], patience |-> draw]
         ELSE [st |-> s, patience |-> s.slow_timeout]

Max(a, b) == IF a > b THEN a ELSE b

\* a create_block that makes its node QUICK at once
create_block_to_quick(s, seq) ==
    LET b0 == Block(s.id, s.head_block, s.new_txs, seq)
        b1 == [b0 EXCEPT !.depth = depth(s, b0)]
        b == [b1 EXCEPT !.creator_state = QUICK] IN
    [st |-> [s EXCEPT !.new_txs = <<>>, !.blocks = @ \cup {b}, !.state = QUICK],
     b |-> b]

\* Node.create_block: [st, b]; seq is next(Block.new_seq)
create_block(s, seq) ==
    LET b0 == Block(s.id, s.head_block, s.new_txs, seq)
        b1 == [b0 EXCEPT !.depth = depth(s, b0)]
        st1 == Max(QUICK, s.state - 1)
        b == [b1 EXCEPT !.creator_state = st1] IN
    [st |-> [s EXCEPT !.new_txs = <<>>, !.blocks = @ \cup {b}, !.state = st1],
     b |-> b]

Res(st, out, exc) == [st |-> st, out |-> out, exc |-> exc]

\* deferLater(reactor, self.get_patience(), self.timeout_over(), txn): the
\* arguments are evaluated first, and timeout_over() without txn is a TypeError
ArmTimer(s, draw) == Res(get_patience(s, draw).st, <<>>, "TypeError")

\* Node.readjust_timeout
readjust_timeout(s, draw) ==
    IF Len(s.new_txs) = 0 THEN Res(s, <<>>, "none")
    ELSE IF s.oldest_txn = None THEN Res(s, <<>>, "AttributeError")
    ELSE IF TxnEq(s.new_txs[1], s.oldest_txn) THEN Res(s, <<>>, "none")
    ELSE ArmTimer([s EXCEPT !.oldest_txn = s.new_txs[1]], draw)

(* ---------------- Node: handlers ---------------- *)
\* Node.receive_transaction, the body under `if txn not in self.known_txs`
enqueue(s, txn, draw) ==
    LET s1 == [s EXCEPT !.known_txs = @ \cup {txn},
                        !.new_txs = Append(@, txn)] IN
    IF Len(s1.new_txs) = 1
    THEN ArmTimer([s1 EXCEPT !.oldest_txn = txn], draw)
    ELSE Res(s1, <<>>, "none")

\* a receive_transaction that does not look the transaction up in known_txs
receive_transaction_unchecked(s, txn, draw) == enqueue(s, txn, draw)

\* Node.receive_transaction
receive_transaction(s, txn, draw) ==
    IF TxnInSet(txn, s.known_txs) THEN Res(s, <<>>, "none")
    ELSE enqueue(s, txn, draw)

\* Node.receive_block
receive_block(s, block, draw) ==
    LET l == Less(s.head_block, block) IN
    IF l.exc # "none" THEN Res(s, <<>>, l.exc)
    ELSE
    LET demote == l.val \/ block.creator_state = QUICK
        s1 == [s EXCEPT !.state = IF demote THEN SLOW ELSE @]
        v == valid_block(s1, block)
        \* the block added to the side-set is the object valid_block writes to
        s2 == [s1 EXCEPT !.blocks = @ \cup {v.block}] IN
    IF v.exc # "none" THEN Res(s2, <<>>, v.exc)
    ELSE IF ~v.val THEN Res(s2, <<>>, "none")
    ELSE readjust_timeout(move_to_block(s2, v.block), draw)

\* a timeout_over that commits the block it created instead of moving to it
timeout_over_commits(s, txn, seq) ==
    IF ~TxnInList(txn, s.new_txs) THEN Res(s, <<>>, "none")
    ELSE
    LET c == create_block(s, seq)
        s1 == commit(c.st, c.b).st IN
    IF s1.state = QUICK /\ ~s1.commit_running
    THEN LET s2 == [s1 EXCEPT !.commit_running = TRUE, !.c_votes = 0,
                              !.c_request_seq = @ + 1]
             try_msg == [Message("TRY", s2.c_request_seq) EXCEPT
                            !.last_committed_block = s2.committed_block] IN
         Res(s2, <<broadcast(c.b), broadcast(try_msg)>>, "none")
    ELSE Res(s1, <<broadcast(c.b)>>, "none")

\* a timeout_over that opens a round whether or not one is running
timeout_over_reopens(s, txn, seq) ==
    IF ~TxnInList(txn, s.new_txs) THEN Res(s, <<>>, "none")
    ELSE
    LET c == create_block(s, seq)
        s1 == move_to_block(c.st, c.b) IN
    IF s1.state = QUICK
    THEN LET s2 == [s1 EXCEPT !.commit_running = TRUE, !.c_votes = 0,
                              !.c_request_seq = @ + 1]
             try_msg == [Message("TRY", s2.c_request_seq) EXCEPT
                            !.last_committed_block = s2.committed_block] IN
         Res(s2, <<broadcast(c.b), broadcast(try_msg)>>, "none")
    ELSE Res(s1, <<broadcast(c.b)>>, "none")

\* Node.timeout_over: seq is the value of Block.new_seq when it is called
timeout_over(s, txn, seq) ==
    IF ~TxnInList(txn, s.new_txs) THEN Res(s, <<>>, "none")
    ELSE
    LET c == create_block(s, seq)
        s1 == move_to_block(c.st, c.b) IN
    IF s1.state = QUICK /\ ~s1.commit_running
    THEN LET s2 == [s1 EXCEPT !.commit_running = TRUE, !.c_votes = 0,
                              !.c_request_seq = @ + 1]
             try_msg == [Message("TRY", s2.c_request_seq) EXCEPT
                            !.last_committed_block = s2.committed_block] IN
         Res(s2, <<broadcast(c.b), broadcast(try_msg)>>, "none")
    ELSE Res(s1, <<broadcast(c.b)>>, "none")

\* Python truthiness of a Block-or-None value
Truthy(b) == b # None

\* receive_message, msg_type == 'TRY'
on_TRY(s, message) ==
    LET c == commit(s, message.last_committed_block) IN
    IF c.exc # "none" THEN Res(c.st, <<>>, c.exc)
    ELSE
    LET l == Less(c.st.s_max_block, message.new_block) IN
    IF l.exc # "none" THEN Res(c.st, <<>>, l.exc)
    ELSE IF l.val
    THEN LET try_ok == [Message("TRY_OK", message.request_seq) EXCEPT
                           !.prop_block = c.st.s_prop_block,
                           !.supp_block = c.st.s_supp_block] IN
         Res([c.st EXCEPT !.s_max_block = message.new_block], <<respond(try_ok)>>, "none")
    ELSE Res(c.st, <<>>, "none")

\* a TRY_OK branch that keeps c_votes when it sends PROPOSE
count_TRY_OK_keeps_votes(s, message) ==
    LET s1 == [s EXCEPT !.c_votes = @ + 1] IN
    IF ~(2 * s1.c_votes > s1.n) THEN Res(s1, <<>>, "none")
    ELSE
    LET s2 == [s1 EXCEPT !.c_request_seq = @ + 1, !.c_com_block = s1.c_new_block]
        propose == [Message("PROPOSE", s2.c_request_seq) EXCEPT
                       !.com_block = s2.c_com_block,
                       !.new_block = s2.c_new_block] IN
    Res(s2, <<broadcast(propose)>>, "none")

\* receive_message, msg_type == 'TRY_OK', from `self.c_votes += 1` on
count_TRY_OK(s, message) ==
    LET s1 == [s EXCEPT !.c_votes = @ + 1] IN
    IF ~(2 * s1.c_votes > s1.n) THEN Res(s1, <<>>, "none")
    ELSE
    LET s2 == [s1 EXCEPT !.c_votes = 0, !.c_request_seq = @ + 1,
                         !.c_com_block = s1.c_new_block]
        deeper == IF Truthy(message.supp_block) /\ Truthy(s2.c_supp_block)
                  THEN Less(s2.c_supp_block, message.supp_block)
                  ELSE Return(FALSE) IN
    IF deeper.exc # "none" THEN Res(s2, <<>>, deeper.exc)
    ELSE
    LET s3 == IF deeper.val
              THEN [s2 EXCEPT !.c_supp_block = message.supp_block,
                              !.c_prop_block = message.prop_block]
              ELSE s2
        s4 == IF Truthy(s3.c_prop_block)
              THEN [s3 EXCEPT !.c_com_block = s3.c_prop_block]
              ELSE s3
        propose == [Message("PROPOSE", s4.c_request_seq) EXCEPT
                       !.com_block = s4.c_com_block,
                       !.new_block = s4.c_new_block] IN
    Res(s4, <<broadcast(propose)>>, "none")

\* a TRY_OK branch that counts a reply whatever its request_seq
on_TRY_OK_unchecked(s, message) == count_TRY_OK(s, message)

\* receive_message, msg_type == 'TRY_OK'
on_TRY_OK(s, message) ==
    IF message.request_seq # s.c_request_seq THEN Res(s, <<>>, "none")
    ELSE count_TRY_OK(s, message)

\* a PROPOSE branch that accepts whatever the depth of new_block
on_PROPOSE_any_depth(s, message) ==
    IF message.new_block = None \/ s.s_max_block = None
    THEN Res(s, <<>>, "AttributeError")
    ELSE LET propose_ack == [Message("PROPOSE_ACK", message.request_seq) EXCEPT
                                !.com_block = message.com_block] IN
         Res([s EXCEPT !.s_prop_block = message.com_block,
                       !.s_supp_block = message.new_block],
             <<respond(propose_ack)>>, "none")

\* receive_message, msg_type == 'PROPOSE'
on_PROPOSE(s, message) ==
    IF message.new_block = None \/ s.s_max_block = None
    THEN Res(s, <<>>, "AttributeError")
    ELSE IF message.new_block.depth = s.s_max_block.depth
    THEN LET propose_ack == [Message("PROPOSE_ACK", message.request_seq) EXCEPT
                                !.com_block = message.com_block] IN
         Res([s EXCEPT !.s_prop_block = message.com_block,
                       !.s_supp_block = message.new_block],
             <<respond(propose_ack)>>, "none")
    ELSE Res(s, <<>>, "none")

\* a PROPOSE_ACK branch that sends COMMIT under the request_seq of the PROPOSE
on_PROPOSE_ACK_same_seq(s, message) ==
    IF message.request_seq # s.c_request_seq THEN Res(s, <<>>, "none")
    ELSE
    LET s1 == [s EXCEPT !.c_votes = @ + 1] IN
    IF ~(2 * s1.c_votes > s1.n) THEN Res(s1, <<>>, "none")
    ELSE
    LET commit_msg == [Message("COMMIT", s1.c_request_seq) EXCEPT
                          !.com_block = message.com_block] IN
    Res([s1 EXCEPT !.commit_running = FALSE], <<broadcast(commit_msg)>>, "none")

\* a PROPOSE_ACK branch that sends COMMIT on every reply that is not stale
on_PROPOSE_ACK_every_vote(s, message) ==
    IF message.request_seq # s.c_request_seq THEN Res(s, <<>>, "none")
    ELSE
    LET s1 == [s EXCEPT !.c_votes = @ + 1]
        commit_msg == [Message("COMMIT", s1.c_request_seq) EXCEPT
                          !.com_block = message.com_block] IN
    Res([s1 EXCEPT !.commit_running = FALSE], <<broadcast(commit_msg)>>, "none")

\* receive_message, msg_type == 'PROPOSE_ACK'
on_PROPOSE_ACK(s, message) ==
    IF message.request_seq # s.c_request_seq THEN Res(s, <<>>, "none")
    ELSE
    LET s1 == [s EXCEPT !.c_votes = @ + 1] IN
    IF ~(2 * s1.c_votes > s1.n) THEN Res(s1, <<>>, "none")
    ELSE
    LET s2 == [s1 EXCEPT !.c_request_seq = @ + 1]
        commit_msg == [Message("COMMIT", s2.c_request_seq) EXCEPT
                          !.com_block = message.com_block] IN
    Res([s2 EXCEPT !.commit_running = FALSE], <<broadcast(commit_msg)>>, "none")

\* receive_message, msg_type == 'COMMIT'
on_COMMIT(s, message) ==
    LET c == commit(s, message.com_block) IN
    IF c.exc # "none" THEN Res(c.st, <<>>, c.exc)
    ELSE Res([c.st EXCEPT !.s_supp_block = None, !.s_prop_block = None,
                          !.s_max_block = None], <<>>, "none")

\* Node.receive_message
receive_message(s, message) ==
    CASE message.msg_type = "TRY" -> on_TRY(s, message)
      [] message.msg_type = "TRY_OK" -> on_TRY_OK(s, message)
      [] message.msg_type = "PROPOSE" -> on_PROPOSE(s, message)
      [] message.msg_type = "PROPOSE_ACK" -> on_PROPOSE_ACK(s, message)
      [] message.msg_type = "COMMIT" -> on_COMMIT(s, message)
      [] OTHER -> Res(s, <<>>, "none")

(* ---------------- inputs ---------------- *)
\* transactions clients hand to a node
TxnInputs == {Transaction(0, "x", 1), Transaction(1, "y", 1)}

\* a block as a peer's create_block leaves it
PeerBlock(creator_id, seq, creator_state, txs) ==
    [Block(creator_id, GENESIS, txs, seq) EXCEPT
        !.creator_state = creator_state, !.depth = 0]

PeerBlocks ==
    {PeerBlock(1, 1, QUICK, <<Transaction(1, "y", 1)>>),
     PeerBlock(2, 2, MEDIUM, <<Transaction(0, "x", 1)>>)}

\* a peer's block whose parent, a block of the same peer, never reached the node
OrphanBlocks ==
    {[PeerBlock(2, 6, MEDIUM, <<Transaction(0, "x", 1)>>) EXCEPT
         !.parent_block_id = PeerBlock(2, 5, MEDIUM, <<>>)]}

\* the blocks peers broadcast to a node
BlockInputs == PeerBlocks \cup OrphanBlocks

\* values of the block-valued fields of a message
FieldBlocks == {PeerBlock(1, 1, QUICK, <<Transaction(1, "y", 1)>>), GENESIS, None}

\* request_seq of a reply: the node's current one, or the one before it
\* (the one after it for a node that opened no round yet)
ReplySeqs(s) ==
    {s.c_request_seq, IF s.c_request_seq = 0 THEN 1 ELSE s.c_request_seq - 1}

\* the messages a peer may deliver to a node in state s; request_seq is read
\* by the TRY_OK and PROPOSE_ACK branches only
MsgInputs(s) ==
    {[Message("TRY", 1) EXCEPT !.new_block = nb, !.last_committed_block = lc] :
        nb \in FieldBlocks \ {GENESIS}, lc \in FieldBlocks}
    \cup {[Message("TRY_OK", rs) EXCEPT !.prop_block = pb, !.supp_block = pb] :
        rs \in ReplySeqs(s), pb \in FieldBlocks \ {GENESIS}}
    \cup {[Message("PROPOSE", 1) EXCEPT !.com_block = cb, !.new_block = nb] :
        cb \in FieldBlocks \ {GENESIS}, nb \in FieldBlocks}
    \cup {[Message("PROPOSE_ACK", rs) EXCEPT !.com_block = cb] :
        rs \in ReplySeqs(s), cb \in FieldBlocks}
    \cup {[Message("COMMIT", 1) EXCEPT !.com_block = cb] : cb \in FieldBlocks}

\* the channels of the transport, one from each node to each other node
Channels == {p \in Nodes \X Nodes : p[1] # p[2]}
Idle == [p \in Channels |-> <<>>]

(* ---------------- state ---------------- *)
VARIABLES
    node,      \* node[i]: the fields of Node i and of its Blocktree
    new_seq,   \* Block.new_seq, the class-wide counter of block sequence numbers
    net,       \* net[<<i, j>>]: the objects sent from i to j and not yet delivered
    last,      \* the handler that ran last: its node, its branch, its exception
    counted    \* counted[i]: the replies behind the current c_votes of i

vars == <<node, new_seq, net, last, counted>>

\* the branch of handler op that argument arg takes in state s
Branch(s, op, arg) ==
    IF op = "receive_transaction"
    THEN IF TxnInSet(arg, s.known_txs) THEN "known" ELSE "new"
    ELSE IF op = "timeout_over"
    THEN IF TxnInList(arg, s.new_txs) THEN "pending" ELSE "gone"
    ELSE IF op = "receive_block" THEN "block"
    ELSE IF arg.msg_type \in {"TRY_OK", "PROPOSE_ACK"}
            /\ arg.request_seq # s.c_request_seq
    THEN "stale"
    ELSE arg.msg_type

Ran(op, n, arg, r) ==
    [op |-> op, node |-> n, branch |-> Branch(node[n], op, arg), exc |-> r.exc]

Init ==
    /\ node = [i \in Nodes |-> InitNode(i)]
    /\ new_seq = 1
    /\ net = Idle
    /\ last = [op |-> "init", node |-> 0, branch |-> "init", exc |-> "none"]
    /\ counted = [i \in Nodes |-> {}]

\* the TRY_OK messages counted since c_votes was last zero
Counted(n, op, arg, r) ==
    IF op = "timeout_over" /\ r.st.c_request_seq # node[n].c_request_seq THEN {}
    ELSE IF op = "receive_message" /\ arg.msg_type = "TRY_OK"
            /\ arg.request_seq = node[n].c_request_seq
         THEN IF r.st.c_votes = 0 THEN {}
              ELSE IF node[n].c_votes = 0 THEN {arg} ELSE counted[n] \cup {arg}
    ELSE counted[n]

\* node n runs a handler to its end (return or exception)
Run(n, r) ==
    /\ r.st.c_request_seq <= MaxReq
    /\ node' = [node EXCEPT ![n] = r.st]

\* the same, observed
Handle(n, op, arg, r) ==
    /\ Run(n, r)
    /\ last' = Ran(op, n, arg, r)
    /\ counted' = [counted EXCEPT ![n] = Counted(n, op, arg, r)]

(* ---------------- one node driven through its handlers ---------------- *)
\* the node whose handlers are driven, the other nodes being its peers
UnderTest == 1

ReceiveTransaction ==
    \E n \in {UnderTest}, txn \in TxnInputs, draw \in SlowDraws(NumNodes) :
        /\ Handle(n, "receive_transaction", txn, receive_transaction(node[n], txn, draw))
        /\ UNCHANGED <<new_seq, net>>

TimeoutOver ==
    \E n \in {UnderTest}, txn \in TxnInputs :
        /\ new_seq <= MaxSeq
        /\ Handle(n, "timeout_over", txn, timeout_over(node[n], txn, new_seq))
        /\ new_seq' = IF TxnInList(txn, node[n].new_txs) THEN new_seq + 1 ELSE new_seq
        /\ UNCHANGED net

ReceiveBlock ==
    \E n \in {UnderTest}, block \in BlockInputs, draw \in SlowDraws(NumNodes) :
        /\ Handle(n, "receive_block", block, receive_block(node[n], block, draw))
        /\ UNCHANGED <<new_seq, net>>

ReceiveMessage ==
    \E n \in {UnderTest} : \E message \in MsgInputs(node[n]) :
        /\ Handle(n, "receive_message", message, receive_message(node[n], message))
        /\ UNCHANGED <<new_seq, net>>

Next == ReceiveTransaction \/ TimeoutOver \/ ReceiveBlock \/ ReceiveMessage

Spec == Init /\ [][Next]_vars

(* ---------------- the nodes of one cluster and their transport ---------------- *)
\* the transport: broadcast puts the object on the channel from n to each of
\* its peers, respond on the channel to the peer whose message n is handling;
\* a channel delivers in the order of sending, different channels in any order
RECURSIVE Sent(_, _, _, _)
Sent(nt, n, peer, out) ==
    IF out = <<>> THEN nt
    ELSE Sent([p \in Channels |->
                  IF p[1] = n /\ (Head(out).via = "broadcast" \/ p[2] = peer)
                  THEN Append(nt[p], Head(out).obj) ELSE nt[p]],
              n, peer, Tail(out))

\* the transactions clients hand to the nodes; creator_id is the node a client
\* handed the transaction to
ClientTxns ==
    {Transaction(0, "x", 1), Transaction(0, "y", 2),
     Transaction(1, "z", 1), Transaction(1, "w", 2)}

ClientTransaction ==
    \E n \in Nodes, txn \in ClientTxns, draw \in SlowDraws(NumNodes) :
        /\ n = txn.creator_id
        /\ Run(n, receive_transaction(node[n], txn, draw))
        /\ UNCHANGED <<new_seq, net, last, counted>>

TimerExpiry ==
    \E n \in Nodes, txn \in ClientTxns :
        LET r == timeout_over(node[n], txn, new_seq) IN
        /\ new_seq <= MaxNetSeq
        /\ Run(n, r)
        /\ new_seq' = IF TxnInList(txn, node[n].new_txs) THEN new_seq + 1 ELSE new_seq
        /\ net' = Sent(net, n, n, r.out)
        /\ UNCHANGED <<last, counted>>

DeliverBlock ==
    \E p \in Channels, draw \in SlowDraws(NumNodes) :
        /\ net[p] # <<>>
        /\ IsBlock(Head(net[p]))
        /\ LET r == receive_block(node[p[2]], Head(net[p]), draw) IN
           /\ Run(p[2], r)
           /\ net' = Sent([net EXCEPT ![p] = Tail(@)], p[2], p[1], r.out)
        /\ UNCHANGED <<new_seq, last, counted>>

DeliverMessage ==
    \E p \in Channels :
        /\ net[p] # <<>>
        /\ IsMessage(Head(net[p]))
        /\ LET r == receive_message(node[p[2]], Head(net[p])) IN
           /\ Run(p[2], r)
           /\ net' = Sent([net EXCEPT ![p] = Tail(@)], p[2], p[1], r.out)
        /\ UNCHANGED <<new_seq, last, counted>>

NextNet == ClientTransaction \/ TimerExpiry \/ DeliverBlock \/ DeliverMessage

SpecNet == Init /\ [][NextNet]_vars

(* ======================================================================= *)
(* Claims                                                                  *)
(* ======================================================================= *)
Me == node[UnderTest]

\* every request_seq a reply may carry, and every reply
AllReplySeqs == 0 .. (MaxReq + 1)

Replies(type) ==
    {[Message(type, rs) EXCEPT !.prop_block = pb, !.supp_block = pb, !.com_block = cb] :
        rs \in AllReplySeqs, pb \in FieldBlocks, cb \in FieldBlocks}

\* the Paxos messages among the objects a handler broadcast
Originated(out) ==
    {out[i].obj : i \in {j \in 1 .. Len(out) :
                            out[j].via = "broadcast" /\ IsMessage(out[j].obj)}}

\* what each handler makes of each of its inputs in the current state
Outcomes ==
    {receive_transaction(Me, txn, draw) :
        txn \in TxnInputs, draw \in SlowDraws(NumNodes)}
    \cup {timeout_over(Me, txn, new_seq) : txn \in TxnInputs}
    \cup {receive_block(Me, block, draw) :
        block \in BlockInputs, draw \in SlowDraws(NumNodes)}
    \cup {receive_message(Me, message) : message \in MsgInputs(Me)}

(* C6: a TRY_OK or PROPOSE_ACK whose request_seq differs from the node's
   c_request_seq leaves every field of the node as it was, c_votes included,
   and sends nothing. *)
C6_StaleRepliesDropped ==
    \A type \in {"TRY_OK", "PROPOSE_ACK"} : \A m \in Replies(type) :
        m.request_seq # Me.c_request_seq =>
            receive_message(Me, m) = Res(Me, <<>>, "none")

\* a stale reply was handled while a round was open with a vote counted
C6_Witness ==
    /\ last.op = "receive_message" /\ last.branch = "stale"
    /\ Me.commit_running /\ Me.c_votes = 1

(* C7: c_request_seq never decreases; a handler that broadcasts a Paxos
   message (TRY, PROPOSE, COMMIT) has increased c_request_seq and the message
   carries the new value, so messages originated in different phases or rounds
   carry different request_seq. *)
C7_MonotoneRequestSeq ==
    \A r \in Outcomes :
        /\ r.st.c_request_seq >= Me.c_request_seq
        /\ \A msg \in Originated(r.out) :
              /\ r.st.c_request_seq > Me.c_request_seq
              /\ msg.request_seq = r.st.c_request_seq

\* a whole round was run: TRY, PROPOSE and COMMIT were broadcast
C7_Witness ==
    /\ last.op = "receive_message" /\ last.branch = "PROPOSE_ACK"
    /\ ~Me.commit_running /\ Me.c_request_seq = 3

(* C8: new_txs never holds the same transaction twice, and receive_transaction
   does not append a transaction that is already in known_txs. *)
C8_NoDuplicateDispatch ==
    /\ \A i, j \in 1 .. Len(Me.new_txs) :
          TxnEq(Me.new_txs[i], Me.new_txs[j]) => i = j
    /\ \A txn \in TxnInputs, draw \in SlowDraws(NumNodes) :
          TxnInSet(txn, Me.known_txs) =>
              receive_transaction(Me, txn, draw).st.new_txs = Me.new_txs

\* a transaction already packed into a block arrived again while another
\* transaction was pending
C8_Witness ==
    /\ last.op = "receive_transaction" /\ last.branch = "known"
    /\ Len(Me.new_txs) = 1 /\ Me.blocks # {}

(* ---------------- the tree as the parent references give it ---------------- *)
\* the ids of the blocks on the path from GENESIS to b, b included
RECURSIVE PathIds(_)
PathIds(b) ==
    IF b = None THEN {} ELSE {b.block_id} \cup PathIds(b.parent_block_id)

\* the number of parent references from b down to GENESIS
RECURSIVE ChainDepth(_)
ChainDepth(b) ==
    IF b.parent_block_id = None THEN 0 ELSE 1 + ChainDepth(b.parent_block_id)

\* the transactions of the blocks on the path from GENESIS to b
RECURSIVE PathTxs(_)
PathTxs(b) ==
    IF b = None THEN {}
    ELSE {b.txs[i] : i \in 1 .. Len(b.txs)} \cup PathTxs(b.parent_block_id)

\* new is old or a descendant of old
Descends(new, old) ==
    new # None /\ old # None /\ old.block_id \in PathIds(new)

(* C1: in every execution of the cluster, with any node free to stop and
   messages delivered in any order, no two nodes hold two different committed
   blocks of the same depth. *)
C1_Safety ==
    \A i, j \in Nodes :
        LET a == node[i].committed_block
            b == node[j].committed_block IN
        (a # None /\ b # None /\ ChainDepth(a) = ChainDepth(b))
            => a.block_id = b.block_id

\* two nodes opened a round each, and every TRY was handled by its receivers
\* (Blocktree.commit ran on last_committed_block at each of them)
C1_Witness ==
    /\ \E p, q \in Nodes :
          p # q /\ node[p].commit_running /\ node[q].commit_running
    /\ net = Idle

(* C2: after every handler a node's committed_block, when it is a block, is
   its head_block or lies on the path from GENESIS to its head_block. *)
C2_TreeConsistency ==
    Me.committed_block # None =>
        Me.committed_block.block_id \in PathIds(Me.head_block)

(* C3: whenever a node's committed_block changes, the new committed_block is
   a descendant of the one before. *)
C3_PrefixOrder ==
    [][node'[UnderTest].committed_block # node[UnderTest].committed_block =>
          Descends(node'[UnderTest].committed_block,
                   node[UnderTest].committed_block)]_vars

\* the TRY_OK messages of S that carry a supp_block, and the one whose
\* supp_block is deepest
Carriers(S) == {k \in S : k.supp_block # None}
Deepest(S) ==
    CHOOSE k \in Carriers(S) :
        \A o \in Carriers(S) : o.supp_block.depth <= k.supp_block.depth

(* C4: when a non-stale TRY_OK of an open round takes c_votes over n/2, the
   node broadcasts one PROPOSE with new_block = c_new_block and with com_block
   = the prop_block of the counted TRY_OK with the deepest supp_block, or
   c_new_block when no counted TRY_OK carried a supp_block. *)
C4_CompromiseBlock ==
    \A m \in MsgInputs(Me) :
        (/\ m.msg_type = "TRY_OK" /\ m.request_seq = Me.c_request_seq
         /\ Me.commit_running /\ 2 * (Me.c_votes + 1) > Me.n)
        => LET S == counted[UnderTest] \cup {m}
               com == IF Carriers(S) = {} THEN Me.c_new_block
                      ELSE Deepest(S).prop_block IN
           Originated(receive_message(Me, m).out)
               = {[Message("PROPOSE", Me.c_request_seq + 1) EXCEPT
                      !.com_block = com, !.new_block = Me.c_new_block]}

(* C5: Scenario A at rest: once node 0 is QUICK and has opened its round,
   nodes 1 and 2 are SLOW, no transaction is pending at node 0 and every
   message sent was delivered, the three nodes have the same committed_block,
   of depth 1, holding a transaction handed to node 0. *)
C5_HappyPath ==
    (/\ node[0].state = QUICK /\ node[0].commit_running
     /\ node[0].new_txs = <<>>
     /\ node[1].state = SLOW /\ node[2].state = SLOW
     /\ net = Idle)
    => \E b \in {node[0].committed_block} \ {None} :
          /\ \A i \in Nodes : node[i].committed_block = b
          /\ ChainDepth(b) = 1
          /\ \E k \in 1 .. Len(b.txs) : b.txs[k].creator_id = 0

(* ---------------- a head block of known depth ---------------- *)
\* head blocks as create_block leaves a block: depth 0, parent GENESIS
TieHeads ==
    {PeerBlock(0, 3, MEDIUM, <<Transaction(0, "x", 1)>>),
     PeerBlock(2, 3, MEDIUM, <<Transaction(0, "x", 1)>>)}

\* the node under test with such a block as its head_block
InitTie ==
    /\ \E h \in TieHeads :
          node = [i \in Nodes |->
                     IF i = UnderTest THEN [InitNode(i) EXCEPT !.head_block = h]
                     ELSE InitNode(i)]
    /\ new_seq = 1
    /\ net = Idle
    /\ last = [op |-> "init", node |-> 0, branch |-> "init", exc |-> "none"]
    /\ counted = [i \in Nodes |-> {}]

\* the handlers that read or move the head block
NextTie == ReceiveTransaction \/ TimeoutOver \/ ReceiveBlock

SpecTie == InitTie /\ [][NextTie]_vars

(* C9: when a node whose head_block has depth d receives a block of the same
   depth d that descends from committed_block, the head_block after
   receive_block is the one of the two with the smaller creator_id. *)
C9_TieBreak ==
    \A block \in PeerBlocks, draw \in SlowDraws(NumNodes) :
        (/\ Me.head_block.depth # NoDepth
         /\ block.depth = Me.head_block.depth
         /\ Descends(block, Me.committed_block))
        => receive_block(Me, block, draw).st.head_block.block_id
              = IF block.creator_id < Me.head_block.creator_id
                THEN block.block_id ELSE Me.head_block.block_id

\* the runs of the handlers that call move_to_block(target), each with the
\* node state it leaves behind
Moved ==
    {[st |-> timeout_over(Me, txn, new_seq).st,
      target |-> create_block(Me, new_seq).b] :
        txn \in {t \in TxnInputs : TxnInList(t, Me.new_txs)}}
    \cup {[st |-> receive_message(Me, m).st, target |-> m.com_block] :
        m \in {k \in MsgInputs(Me) :
                  /\ k.msg_type = "COMMIT" /\ k.com_block # None
                  /\ LET a == ancestor(Me, k.com_block, Me.committed_block) IN
                     a.exc = "none" /\ ~a.val}}
    \cup {[st |-> receive_block(Me, block, draw).st, target |-> block] :
        block \in {k \in PeerBlocks :
                      /\ Less(Me.head_block, k).exc = "none"
                      /\ valid_block(Me, k).exc = "none" /\ valid_block(Me, k).val},
        draw \in SlowDraws(NumNodes)}

(* C10: after a handler called move_to_block(target), no transaction of a
   block on the path from GENESIS to target, the new head, is in new_txs. *)
C10_TxReplay ==
    \A mv \in Moved :
        \A t \in PathTxs(mv.target) : ~TxnInList(t, mv.st.new_txs)

\* block b is known to the node: a key of Blocktree.nodes or in the side-set
Known(s, b) ==
    b.block_id \in s.nodes \/ \E k \in s.blocks : k.block_id = b.block_id

\* a RequestBlockMessage among the objects a handler sent
RequestsBlock(out) ==
    \E i \in 1 .. Len(out) : IsMessage(out[i].obj) /\ out[i].obj.msg_type = "RQB"

(* C11: receive_block(b) with b's parent unknown to the node sends a
   RequestBlock, keeps b in the blocks side-set and leaves head_block as it
   was. *)
C11_MissingAncestor ==
    \A b \in OrphanBlocks, draw \in SlowDraws(NumNodes) :
        ~Known(Me, b.parent_block_id) =>
            LET r == receive_block(Me, b, draw) IN
            /\ RequestsBlock(r.out)
            /\ \E k \in r.st.blocks : k.block_id = b.block_id
            /\ r.st.head_block = Me.head_block

\* b is strictly greater than h in the order (depth, creator_id), the depth
\* of a block being its distance from GENESIS
Greater(b, h) ==
    \/ ChainDepth(b) > ChainDepth(h)
    \/ ChainDepth(b) = ChainDepth(h) /\ b.creator_id > h.creator_id

(* C12: receive_block(b) leaves the node SLOW if b is strictly greater than
   the head_block the node had or b.creator_state is QUICK, and leaves its
   state as it was otherwise; no other handler moves a node towards SLOW. *)
C12_Demotion ==
    /\ \A b \in BlockInputs, draw \in SlowDraws(NumNodes) :
          receive_block(Me, b, draw).st.state
              = IF Greater(b, Me.head_block) \/ b.creator_state = QUICK
                THEN SLOW ELSE Me.state
    /\ \A r \in Outcomes \ {receive_block(Me, b, draw) :
                               b \in BlockInputs, draw \in SlowDraws(NumNodes)} :
          r.st.state <= Me.state

(* C13: when timeout_over creates block B on a node that is then QUICK and
   has commit_running false, the node sets commit_running, c_votes = 0,
   c_request_seq one higher, c_new_block = B, c_prop_block and c_supp_block
   empty, and broadcasts one TRY with the new request_seq, new_block = B and
   last_committed_block = its committed_block. *)
C13_OpeningRound ==
    \A txn \in TxnInputs :
        (/\ TxnInList(txn, Me.new_txs) /\ ~Me.commit_running
         /\ create_block(Me, new_seq).st.state = QUICK)
        => LET B == create_block(Me, new_seq).b
               r == timeout_over(Me, txn, new_seq) IN
           /\ r.st.commit_running /\ r.st.c_votes = 0
           /\ r.st.c_request_seq = Me.c_request_seq + 1
           /\ r.st.c_new_block = B
           /\ r.st.c_prop_block = None /\ r.st.c_supp_block = None
           /\ Originated(r.out)
                 = {[Message("TRY", Me.c_request_seq + 1) EXCEPT
                        !.new_block = B,
                        !.last_committed_block = Me.committed_block]}

(* ---------------- one proposer through several rounds ---------------- *)
\* transactions for three blocks of the node
ProposerTxns == TxnInputs \cup {Transaction(2, "z", 1)}

\* the replies of the acceptors to the node
ReplyInputs(s) == {m \in MsgInputs(s) : m.msg_type \in {"TRY_OK", "PROPOSE_ACK"}}

ClientRequest ==
    \E n \in {UnderTest}, txn \in ProposerTxns, draw \in SlowDraws(NumNodes) :
        /\ Handle(n, "receive_transaction", txn, receive_transaction(node[n], txn, draw))
        /\ UNCHANGED <<new_seq, net>>

BlockTimer ==
    \E n \in {UnderTest}, txn \in ProposerTxns :
        /\ new_seq <= MaxSeq
        /\ Handle(n, "timeout_over", txn, timeout_over(node[n], txn, new_seq))
        /\ new_seq' = IF TxnInList(txn, node[n].new_txs) THEN new_seq + 1 ELSE new_seq
        /\ UNCHANGED net

ReceiveReply ==
    \E n \in {UnderTest} : \E message \in ReplyInputs(node[n]) :
        /\ Handle(n, "receive_message", message, receive_message(node[n], message))
        /\ UNCHANGED <<new_seq, net>>

NextRound == ClientRequest \/ BlockTimer \/ ReceiveReply

SpecRound == Init /\ [][NextRound]_vars

\* what each handler makes of each of its inputs in the current state
RoundOutcomes ==
    Outcomes
    \cup {receive_transaction(Me, txn, draw) :
            txn \in ProposerTxns, draw \in SlowDraws(NumNodes)}
    \cup {timeout_over(Me, txn, new_seq) : txn \in ProposerTxns}

\* the messages of one type a handler broadcast
Broadcast(out, type) == {m \in Originated(out) : m.msg_type = type}

(* C14: a handler broadcasts at most one TRY, and only when commit_running
   was false and the node is QUICK; it leaves commit_running true, and
   commit_running goes back to false only in a handler that broadcasts COMMIT:
   between a TRY and the COMMIT of its round the node broadcasts no other
   TRY. *)
C14_OneInstance ==
    \A r \in RoundOutcomes :
        /\ Cardinality(Broadcast(r.out, "TRY")) <= 1
        /\ Broadcast(r.out, "TRY") # {} =>
              ~Me.commit_running /\ r.st.state = QUICK /\ r.st.commit_running
        /\ (Me.commit_running /\ ~r.st.commit_running) =>
              Broadcast(r.out, "COMMIT") # {}

\* the node created its third block while the round it opened with its second
\* block was still running, and sent no TRY for it
C14_Witness ==
    /\ last.op = "timeout_over" /\ last.branch = "pending"
    /\ Me.commit_running /\ Me.c_request_seq = 1
    /\ Cardinality(Me.blocks) = 3

(* C15: when a round the node opened got no reply counted and is still
   running, the next block the node creates opens a fresh round: timeout_over
   broadcasts a TRY whose request_seq is higher than the one of the stalled
   round. *)
C15_StalledRoundRecovery ==
    \A txn \in ProposerTxns :
        (/\ TxnInList(txn, Me.new_txs)
         /\ Me.state = QUICK /\ Me.commit_running /\ Me.c_votes = 0)
        => \E m \in Broadcast(timeout_over(Me, txn, new_seq).out, "TRY") :
              m.request_seq > Me.c_request_seq

(* C16: after a node handled COMMIT its server-side state is the initial one:
   s_prop_block and s_supp_block empty and s_max_block = GENESIS. *)
C16_ServerStateReset ==
    \A m \in MsgInputs(Me) :
        LET r == receive_message(Me, m) IN
        (m.msg_type = "COMMIT" /\ r.exc = "none") =>
            /\ r.st.s_prop_block = InitNode(UnderTest).s_prop_block
            /\ r.st.s_supp_block = InitNode(UnderTest).s_supp_block
            /\ r.st.s_max_block = InitNode(UnderTest).s_max_block

(* C17: on a TRY whose new_block is strictly greater than s_max_block in the
   order (depth, creator_id) the acceptor sets s_max_block to it and responds
   one TRY_OK with the TRY's request_seq and its s_prop_block and
   s_supp_block; on any other TRY it leaves s_max_block, s_prop_block and
   s_supp_block as they were and sends nothing. *)
C17_TryReply ==
    \A m \in MsgInputs(Me) :
        (m.msg_type = "TRY" /\ m.new_block # None /\ Me.s_max_block # None) =>
            LET r == receive_message(Me, m) IN
            IF Greater(m.new_block, Me.s_max_block)
            THEN /\ r.st.s_max_block = m.new_block
                 /\ r.out = <<respond([Message("TRY_OK", m.request_seq) EXCEPT
                                          !.prop_block = Me.s_prop_block,
                                          !.supp_block = Me.s_supp_block])>>
            ELSE /\ r.st.s_max_block = Me.s_max_block
                 /\ r.st.s_prop_block = Me.s_prop_block
                 /\ r.st.s_supp_block = Me.s_supp_block
                 /\ r.out = <<>>

(* C18: on a PROPOSE whose new_block has the depth of s_max_block the
   acceptor stores s_prop_block = com_block and s_supp_block = new_block and
   responds one PROPOSE_ACK with the same request_seq and com_block; on any
   other PROPOSE it changes nothing and sends nothing. *)
C18_ProposeAccept ==
    \A m \in MsgInputs(Me) :
        m.msg_type = "PROPOSE" =>
            LET r == receive_message(Me, m) IN
            IF /\ m.new_block # None /\ Me.s_max_block # None
               /\ m.new_block.depth = Me.s_max_block.depth
            THEN /\ r.st = [Me EXCEPT !.s_prop_block = m.com_block,
                                      !.s_supp_block = m.new_block]
                 /\ r.out = <<respond([Message("PROPOSE_ACK", m.request_seq) EXCEPT
                                          !.com_block = m.com_block])>>
            ELSE r.st = Me /\ r.out = <<>>

\* a PROPOSE was accepted and the next one, with a new_block of another depth,
\* is about to be dropped
C18_Witness ==
    /\ last.op = "receive_message" /\ last.branch = "PROPOSE" /\ last.exc = "none"
    /\ Me.s_supp_block = GENESIS /\ Me.s_prop_block # None
    /\ \E m \in MsgInputs(Me) :
          /\ m.msg_type = "PROPOSE" /\ m.new_block # None
          /\ m.new_block.depth # Me.s_max_block.depth

(* C19: a PROPOSE_ACK makes the node broadcast COMMIT exactly when it is not
   stale and takes c_votes over n/2; the node then has increased c_request_seq
   by one, broadcast one COMMIT with the new request_seq and the reply's
   com_block, and set commit_running to false, and no further PROPOSE_ACK of
   that round makes it broadcast a second COMMIT. *)
C19_CommitOnce ==
    \A m \in Replies("PROPOSE_ACK") :
        LET r == receive_message(Me, m) IN
        IF m.request_seq = Me.c_request_seq /\ 2 * (Me.c_votes + 1) > Me.n
        THEN /\ r.st.c_request_seq = Me.c_request_seq + 1
             /\ ~r.st.commit_running
             /\ Originated(r.out)
                   = {[Message("COMMIT", Me.c_request_seq + 1) EXCEPT
                          !.com_block = m.com_block]}
             /\ \A again \in Replies("PROPOSE_ACK") :
                   again.request_seq = m.request_seq =>
                       Broadcast(receive_message(r.st, again).out, "COMMIT") = {}
        ELSE Broadcast(r.out, "COMMIT") = {}

\* the node ran a round to its COMMIT and then handled a late reply
C19_Witness ==
    /\ last.op = "receive_message" /\ last.branch = "stale"
    /\ Me.state = QUICK /\ ~Me.commit_running
    /\ Me.c_request_seq = 3 /\ Me.c_votes = 2

(* C20: timeout_over(txn) with txn in new_txs creates one block holding the
   transactions of new_txs in their order, with the head_block the node had
   as its parent, empties new_txs, makes the block the head_block and
   broadcasts it; with txn not in new_txs it changes nothing and sends
   nothing. *)
C20_TimerExpiry ==
    \A txn \in TxnInputs :
        LET r == timeout_over(Me, txn, new_seq) IN
        IF TxnInList(txn, Me.new_txs)
        THEN \E B \in r.st.blocks \ Me.blocks :
                /\ r.st.blocks = Me.blocks \cup {B}
                /\ B.txs = Me.new_txs
                /\ B.parent_block_id = Me.head_block
                /\ r.st.new_txs = <<>>
                /\ r.st.head_block = B
                /\ \E i \in 1 .. Len(r.out) : r.out[i] = broadcast(B)
        ELSE r = Res(Me, <<>>, "none")

\* one step toward QUICK
Promoted(state) ==
    CASE state = SLOW -> MEDIUM
      [] state = MEDIUM -> QUICK
      [] state = QUICK -> QUICK

\* the runs of timeout_over that create a block
Creations ==
    {timeout_over(Me, txn, new_seq) :
        txn \in {t \in ProposerTxns : TxnInList(t, Me.new_txs)}}

(* C21: a create_block moves the state of its node one step toward QUICK
   (SLOW to MEDIUM, MEDIUM to QUICK, QUICK stays) and writes the state after
   the step into the block's creator_state; no handler run that creates no
   block moves the state toward QUICK. *)
C21_Promotion ==
    /\ LET c == create_block(Me, new_seq) IN
          c.st.state = Promoted(Me.state) /\ c.b.creator_state = c.st.state
    /\ \A r \in Creations :
          /\ r.st.state = Promoted(Me.state)
          /\ \E B \in r.st.blocks \ Me.blocks : B.creator_state = r.st.state
    /\ \A r \in RoundOutcomes \ Creations : r.st.state >= Me.state

\* the node created its third block, being QUICK already
C21_Witness ==
    /\ last.op = "timeout_over" /\ last.branch = "pending"
    /\ Me.state = QUICK /\ Cardinality(Me.blocks) = 3
    /\ \E B \in Me.blocks : B.creator_state = MEDIUM

(* C22: the block create_block makes on top of head_block has the depth of
   its parent plus one, GENESIS being at depth 0, and is strictly greater than
   head_block in the order of Block.__lt__. *)
C22_DepthInvariant ==
    Me.new_txs # <<>> =>
        LET B == create_block(Me, new_seq).b IN
        /\ B.depth = ChainDepth(B)
        /\ Less(Me.head_block, B) = Return(TRUE)

(* ---------------- one proposer and the replies of its peers ---------------- *)
Peers == Nodes \ {UnderTest}

\* what a peer may send back for the object at the head of its channel: the
\* TRY branch responds nothing or one TRY_OK with the request_seq of the TRY,
\* the PROPOSE branch nothing or one PROPOSE_ACK with the request_seq and the
\* com_block of the PROPOSE, and no other handler responds
Answers(req) ==
    IF ~IsMessage(req) THEN {<<>>}
    ELSE IF req.msg_type = "TRY"
    THEN {<<>>}
         \cup {<<[Message("TRY_OK", req.request_seq) EXCEPT
                     !.prop_block = pb, !.supp_block = pb]>> :
                  pb \in FieldBlocks \ {GENESIS}}
    ELSE IF req.msg_type = "PROPOSE"
    THEN {<<>>, <<[Message("PROPOSE_ACK", req.request_seq) EXCEPT
                      !.com_block = req.com_block]>>}
    ELSE {<<>>}

\* a reply, with the peer it came from
From(p, m) == [from |-> p, msg_type |-> m.msg_type, request_seq |-> m.request_seq]

ProposerRequest ==
    \E txn \in ProposerTxns, draw \in SlowDraws(NumNodes) :
        /\ Handle(UnderTest, "receive_transaction", txn,
                  receive_transaction(node[UnderTest], txn, draw))
        /\ UNCHANGED <<new_seq, net>>

ProposerTimer ==
    \E txn \in ProposerTxns :
        LET r == timeout_over(node[UnderTest], txn, new_seq) IN
        /\ new_seq <= MaxSeq
        /\ Run(UnderTest, r)
        /\ last' = Ran("timeout_over", UnderTest, txn, r)
        /\ counted' = [counted EXCEPT ![UnderTest] =
                          IF Broadcast(r.out, "TRY") # {} THEN {} ELSE @]
        /\ new_seq' = IF TxnInList(txn, node[UnderTest].new_txs)
                      THEN new_seq + 1 ELSE new_seq
        /\ net' = Sent(net, UnderTest, UnderTest, r.out)

PeerAnswers ==
    \E p \in Peers :
        /\ net[<<UnderTest, p>>] # <<>>
        /\ \E answer \in Answers(Head(net[<<UnderTest, p>>])) :
              net' = [net EXCEPT ![<<UnderTest, p>>] = Tail(@),
                                 ![<<p, UnderTest>>] = @ \o answer]
        /\ UNCHANGED <<node, new_seq, last, counted>>

DeliverReply ==
    \E p \in Peers :
        /\ net[<<p, UnderTest>>] # <<>>
        /\ LET m == Head(net[<<p, UnderTest>>])
               r == receive_message(node[UnderTest], m) IN
           /\ Run(UnderTest, r)
           /\ last' = Ran("receive_message", UnderTest, m, r)
           /\ counted' = [counted EXCEPT ![UnderTest] =
                             IF m.request_seq = node[UnderTest].c_request_seq
                             THEN @ \cup {From(p, m)} ELSE @]
           /\ net' = Sent([net EXCEPT ![<<p, UnderTest>>] = Tail(@)],
                          UnderTest, p, r.out)
        /\ UNCHANGED new_seq

NextQuorum == ProposerRequest \/ ProposerTimer \/ PeerAnswers \/ DeliverReply

SpecQuorum == Init /\ [][NextQuorum]_vars

\* the peers whose replies of one type and request_seq are in S
Voters(S, type, seq) ==
    {k.from : k \in {x \in S : x.msg_type = type /\ x.request_seq = seq}}

(* C23: the node broadcasts PROPOSE only when TRY_OK replies for its current
   request_seq from more than n/2 distinct peers were counted, and COMMIT only
   when PROPOSE_ACK replies for its current request_seq from more than n/2
   distinct peers were counted; while a round runs c_votes is the number of
   distinct peers whose replies for the current request_seq were counted. *)
C23_QuorumDistinct ==
    /\ Me.commit_running =>
          Me.c_votes
              = Cardinality({k.from : k \in {x \in counted[UnderTest] :
                                                x.request_seq = Me.c_request_seq}})
    /\ \A p \in Peers :
          net[<<p, UnderTest>>] # <<>> =>
              LET m == Head(net[<<p, UnderTest>>])
                  r == receive_message(Me, m)
                  S == counted[UnderTest]
                         \cup (IF m.request_seq = Me.c_request_seq
                               THEN {From(p, m)} ELSE {}) IN
              /\ Broadcast(r.out, "PROPOSE") # {} =>
                    2 * Cardinality(Voters(S, "TRY_OK", Me.c_request_seq)) > Me.n
              /\ Broadcast(r.out, "COMMIT") # {} =>
                    2 * Cardinality(Voters(S, "PROPOSE_ACK", Me.c_request_seq)) > Me.n

\* the node sent COMMIT after PROPOSE_ACKs of two peers, and PROPOSE before
\* it after their TRY_OKs
C23_Witness ==
    /\ last.op = "receive_message" /\ last.branch = "PROPOSE_ACK"
    /\ ~Me.commit_running /\ Me.c_request_seq = 3
    /\ Cardinality(Voters(counted[UnderTest], "TRY_OK", 1)) = 2
    /\ Cardinality(Voters(counted[UnderTest], "PROPOSE_ACK", 2)) = 2

====
